---- MODULE Spec2Model ----
(***************************************************************************)
(* The paginated message counter of src/utils/count_messages.py:           *)
(* count_messages_in_channel, its recursive use through count_all_messages *)
(* (the unbounded full scan) and find_actual_start_near_end (the backward  *)
(* bisection), run against a message store whose answers are arbitrary.    *)
(*                                                                         *)
(* Tokens are counted in units of 10^7 timetoken ticks (one second), so    *)
(* that every threshold of the source is an exact multiple of the unit and *)
(* fits TLC's integers: 10^14 is StartSlack, 10^15 is EndSlack,            *)
(* 18000000000000000 is DistantFuture and the search ranges 2*10^7 ...     *)
(* 10^10 are 2 ... 1000.  Python's None and 0 are both falsy wherever the  *)
(* source tests a timetoken ("if current_start:"), so an absent timetoken  *)
(* is 0 here; tokens of records are positive.                              *)
(*                                                                         *)
(* Three other tools of src/utils are modelled next to it, each with its   *)
(* own variables and specification: ChannelGroupTester.run_tests           *)
(* (TesterSpec), main of upload_gallery.py with download_random_image      *)
(* (GallerySpec) and AppContextPopulator.create_memberships (MembersSpec). *)
(***************************************************************************)
EXTENDS Integers, Sequences, FiniteSets, TLC

\* ---------------------------------------------------------------- bounds
\* Records per page: the source asks for 100 and compares with 100.
PageSize == 2
\* Tokens of recent records.
NumRecent == 2
\* Fetches of one invocation that are explored.
MaxFetches == 8
\* Images asked for on the command line of upload_gallery (--count).
MaxCount == 2
\* Users and channels handed to create_memberships, and its batch_size.
MaxUsers == 2
MaxChannels == 2
BatchSize == 2

\* ------------------------------------------------------ program constants
StartSlack == 10000000
EndSlack == 100000000
DistantFuture == 1800000000
search_ranges == <<2, 5, 10, 100, 1000>>
\* download_random_image(max_retries=3)
max_retries == 3

\* ------------------------------------------------------------ the inputs
Now == DistantFuture - EndSlack
\* A token far older than the recent ones (a start the store ignores).
OldTokens == {1}
RecentTokens == (Now + 1)..(Now + NumRecent)
FarEnd == DistantFuture + EndSlack
\* A token later than every end that is far beyond the recent tokens.
FutureTokens == {FarEnd + 1}
Tokens == OldTokens \cup RecentTokens \cup FutureTokens
Starts == {0} \cup Tokens
Ends == {0} \cup Tokens \cup {FarEnd}

Min(S) == CHOOSE x \in S : \A y \in S : x <= y
Max(S) == CHOOSE x \in S : \A y \in S : x >= y

\* A page of at most PageSize records, each identified by its token.
Batches == {b \in SUBSET Tokens : Cardinality(b) <= PageSize}

\* What one fetch_messages(...).sync() can do: an envelope with records of
\* the channel, an envelope with an error status, an envelope whose result
\* has no entry for the channel, or an exception (PubNubException or other).
Envelope(kind, msgs) == [kind |-> kind, msgs |-> msgs]
Responses ==
    {Envelope("ok", b) : b \in Batches}
        \cup {Envelope(k, {}) : k \in {"error", "nochannel", "pubnub_exception", "exception"}}

\* The store of the module docstring: a fixed log, a fetch answers with the
\* newest page of records strictly older than the cursor (the newest page
\* when there is no cursor).
RECURSIVE Newest(_, _)
Newest(S, n) ==
    IF n = 0 \/ S = {} THEN {}
    ELSE LET m == Max(S) IN {m} \cup Newest(S \ {m}, n - 1)

LogPage(lg, cursor) ==
    LET older == IF cursor = 0 THEN lg ELSE {t \in lg : t < cursor}
    IN Newest(older, PageSize)

VARIABLES
    args,                       \* main(): the parsed --start and --end
    exit_code,                  \* main(): the exit code, once pc = "exit"
    store,                      \* "any": arbitrary answers; "log": the fixed log
    log,                        \* the records of the fixed log
    call_start, call_end,       \* arguments of the invocation made by main()
    pc,                         \* "main", "loop", "bisect", "done", "raised", "exit"
    frame,                      \* "main": the caller's invocation; "scan": the one of count_all_messages
    start_timetoken, end_timetoken,
    total_count, current_start, original_start,
    first_iteration, previous_oldest_timetoken, api_ignoring_start,
    range_index,                \* position in search_ranges
    result,                     \* the value returned to the caller
    trace,                      \* the fetches issued so far and their answers
    counted                     \* how often each token was added to the count returned

\* test_channel_groups_secret_key.py: ChannelGroupTester
VARIABLES
    tester_pc,                  \* position in run_tests: "TEST 1" ... "TEST 4", "report", "done"
    test_results,               \* per test type: creation_success, query_success, ...
    conclusion                  \* the conclusion of generate_summary_report

\* upload_gallery.py: main and download_random_image
VARIABLES
    gallery_pc,                 \* "download", "upload", "finally", "exit", "raised"
    count,                      \* args.count
    image,                      \* the loop index of main
    attempt,                    \* the loop index of download_random_image
    disk,                       \* the temporary files that exist
    created,                    \* the number of temporary files created so far
    downloaded_files,
    temp_file,                  \* the file main is about to upload (0: none)
    successful, failed,
    aborted,                    \* an exception is on its way out of main
    calls                       \* the calls of download_random_image that returned

\* populate_app_context.py: AppContextPopulator.create_memberships
VARIABLES
    members_pc,                 \* "start", "guaranteed", "while", "execute", "done", "raised"
    users, channels,            \* the users are 1..users, the channels 1..channels
    membership_ratio,
    guaranteed_channel,
    target_memberships, membership_count,
    user_index,                 \* the position in the loop over users
    additional_needed, created_additional,
    batch_memberships

counterVars == <<args, exit_code, store, log, call_start, call_end, pc, frame,
                 start_timetoken, end_timetoken, total_count, current_start,
                 original_start, first_iteration, previous_oldest_timetoken,
                 api_ignoring_start, range_index, result, trace, counted>>

testerVars == <<tester_pc, test_results, conclusion>>

galleryVars == <<gallery_pc, count, image, attempt, disk, created, downloaded_files,
                 temp_file, successful, failed, aborted, calls>>

membersVars == <<members_pc, users, channels, membership_ratio, guaranteed_channel,
                 target_memberships, membership_count, user_index,
                 additional_needed, created_additional, batch_memberships>>

\* The state of the other tools of the repository, which a run of one tool
\* leaves alone.
toolVars == <<testerVars, galleryVars, membersVars>>

vars == <<counterVars, toolVars>>

storeVars == <<args, exit_code, store, log, call_start, call_end>>

\* --start and --end as argparse leaves them: absent (None, 0 here) or an int.
Arg(given, value) == [given |-> given, value |-> value]
NoArg == Arg(FALSE, 0)
CliValues == {NoArg} \cup {Arg(TRUE, v) : v \in {0} \cup Tokens}

\* ------------------------------------------------- the other tools, at rest
TestTypes == {"with_secret", "without_secret"}

\* ChannelGroupTester.__init__: nothing created, nothing queried.
NoResults ==
    [t \in TestTypes |-> [creation_success |-> FALSE, query_success |-> FALSE,
                          channels_found |-> {}, error_messages |-> <<>>]]

TesterIdle ==
    /\ tester_pc = "idle"
    /\ test_results = NoResults
    /\ conclusion = ""

\* The locals of upload_gallery.main before its loop.
GalleryLocals ==
    /\ image = 0
    /\ attempt = 0
    /\ disk = {}
    /\ created = 0
    /\ downloaded_files = <<>>
    /\ temp_file = 0
    /\ successful = 0
    /\ failed = 0
    /\ aborted = FALSE
    /\ calls = <<>>

GalleryIdle ==
    /\ gallery_pc = "idle"
    /\ count = 0
    /\ GalleryLocals

\* The locals of create_memberships before its first statement.
MembersLocals ==
    /\ guaranteed_channel = 0
    /\ target_memberships = 0
    /\ membership_count = 0
    /\ user_index = 0
    /\ additional_needed = 0
    /\ created_additional = 0
    /\ batch_memberships = <<>>

MembersIdle ==
    /\ members_pc = "idle"
    /\ users = 0
    /\ channels = 0
    /\ membership_ratio = [num |-> 0, den |-> 1]
    /\ MembersLocals

\* count_messages_in_channel called with any start and end.
Init ==
    /\ TesterIdle /\ GalleryIdle /\ MembersIdle
    /\ args = [start |-> NoArg, end |-> NoArg]
    /\ exit_code = 0
    /\ store \in {"any", "log"}
    /\ log \in (IF store = "log" THEN SUBSET Tokens ELSE {{}})
    /\ call_start \in (IF store = "log" THEN {0} ELSE Starts)
    /\ call_end \in (IF store = "log" THEN {0} ELSE Ends)
    /\ pc = "loop"
    /\ frame = "main"
    /\ start_timetoken = call_start
    /\ end_timetoken = call_end
    /\ total_count = 0
    /\ current_start = call_start
    /\ original_start = call_start
    /\ first_iteration = TRUE
    /\ previous_oldest_timetoken = 0
    /\ api_ignoring_start = FALSE
    /\ range_index = 1
    /\ result = 0
    /\ trace = <<>>
    /\ counted = [t \in Tokens |-> 0]

\* The answers the store can give to a fetch with the given cursor.
Answers(cursor) ==
    IF store = "log"
    THEN LET page == LogPage(log, cursor)
         IN {Envelope("ok", page)} \cup (IF page = {} THEN {Envelope("nochannel", {})} ELSE {})
    ELSE Responses


\* ------------------------------------------- count_messages_in_channel
\* fetch_params: 'start' is passed when current_start is truthy, 'end' when
\* end_timetoken is truthy and not suppressed (0: the key is absent).
FetchStart == current_start

\* The end left out whenever it is in the distant future.
FetchEndSuppressing ==
    IF end_timetoken # 0 /\ ~(end_timetoken > DistantFuture)
    THEN end_timetoken ELSE 0

\* 'end': suppressed when the store ignores the start and the end is distant.
FetchEnd ==
    IF end_timetoken # 0 /\ ~(api_ignoring_start /\ end_timetoken > DistantFuture)
    THEN end_timetoken ELSE 0

\* The records of S are added to the count of the running procedure.
Counts(S) == counted' = [t \in Tokens |-> IF t \in S THEN counted[t] + 1 ELSE counted[t]]

Fetched(proc, s, e, resp) ==
    /\ Len(trace) < MaxFetches
    /\ trace' = Append(trace, [proc |-> proc, start |-> s, end |-> e, resp |-> resp])

\* Without the "except Exception" clause.
CaughtPubNubOnly(kind) == kind = "pubnub_exception"

\* The except clauses of the loop: PubNubException, then Exception.
Caught(kind) == kind \in {"pubnub_exception", "exception"}

\* return v, from the caller's invocation or through count_all_messages.
Return(v) == pc' = "done" /\ result' = v

\* The detection run on every iteration.
IgnoredStartAnyIteration(raw) ==
    /\ current_start # 0
    /\ raw # {}
    /\ current_start < Min(raw) - StartSlack

\* First iteration only: the batch is much newer than the requested start.
IgnoredStart(raw) ==
    /\ first_iteration
    /\ current_start # 0
    /\ raw # {}
    /\ current_start < Min(raw) - StartSlack

\* The start taken as inclusive.
ShouldIncludeFromStart(t, ignoring) ==
    /\ IF ignoring
       THEN ~(original_start # 0 /\ t < original_start)
       ELSE ~(start_timetoken # 0 /\ t < start_timetoken)
    /\ ~(end_timetoken # 0 /\ t > end_timetoken)

\* No filter on the start once the store ignores it.
ShouldIncludeTrustingStore(t, ignoring) ==
    /\ ignoring \/ ~(start_timetoken # 0 /\ t <= start_timetoken)
    /\ ~(end_timetoken # 0 /\ t > end_timetoken)

\* The filter of one record; ignoring is api_ignoring_start at that point.
ShouldInclude(t, ignoring) ==
    /\ IF ignoring
       THEN ~(original_start # 0 /\ t <= original_start)
       ELSE ~(start_timetoken # 0 /\ t <= start_timetoken)
    /\ ~(end_timetoken # 0 /\ t > end_timetoken)

\* Without the breaks on a short page.
StopsAfterBatchNoShortPage(raw, filtered, ignoring) ==
    \/ /\ raw # {}
       /\ end_timetoken # 0
       /\ \/ Max(raw) > end_timetoken
          \/ current_start # 0 /\ Max(raw) >= end_timetoken
    \/ raw = {}
    \/ end_timetoken # 0 /\ raw # {} /\ Min(raw) > end_timetoken

\* Without the block that compares the newest record with the end.
StopsAfterBatchNoPastEnd(raw, filtered, ignoring) ==
    \/ filtered = {} /\ (raw = {} \/ Cardinality(raw) < PageSize)
    \/ Cardinality(raw) < PageSize
    \/ end_timetoken # 0 /\ raw # {} /\ Min(raw) > end_timetoken
    \/ /\ ignoring /\ end_timetoken # 0 /\ raw # {}
       /\ Max(raw) > end_timetoken /\ filtered = {}

\* Without the comparisons of the batch with the end.
StopsAfterBatchNoEndChecks(raw, filtered, ignoring) ==
    \/ filtered = {} /\ (raw = {} \/ Cardinality(raw) < PageSize)
    \/ Cardinality(raw) < PageSize

\* The breaks between "total_count += batch_count" and the next cursor.
StopsAfterBatch(raw, filtered, ignoring) ==
    \/ /\ raw # {}
       /\ end_timetoken # 0
       /\ \/ Max(raw) > end_timetoken
          \/ current_start # 0 /\ Max(raw) >= end_timetoken
    \/ filtered = {} /\ (raw = {} \/ Cardinality(raw) < PageSize)
    \/ Cardinality(raw) < PageSize
    \/ end_timetoken # 0 /\ raw # {} /\ Min(raw) > end_timetoken
    \/ /\ ignoring /\ end_timetoken # 0 /\ raw # {}
       /\ Max(raw) > end_timetoken /\ filtered = {}

\* The newest timetoken taken as the next cursor.
NewestTimetoken(raw, filtered) ==
    IF filtered # {} THEN Max(filtered) ELSE Max(raw)

\* The oldest timetoken of the filtered messages (if any) or of the raw ones.
OldestTimetoken(raw, filtered) ==
    IF filtered # {} THEN Min(filtered) ELSE Min(raw)

\* Without the check of the previous oldest timetoken.
NeverStuck(oldest) == FALSE

\* An equal oldest timetoken is let through.
NotDecreasingStrict(oldest) ==
    previous_oldest_timetoken # 0 /\ oldest > previous_oldest_timetoken

\* The loop goes on when the store ignores the start.
NotDecreasingUnlessIgnoring(oldest) ==
    /\ previous_oldest_timetoken # 0 /\ oldest >= previous_oldest_timetoken
    /\ ~api_ignoring_start

\* "stuck in a loop": both branches of the source break.
NotDecreasing(oldest) ==
    previous_oldest_timetoken # 0 /\ oldest >= previous_oldest_timetoken

loopLocals == <<start_timetoken, end_timetoken, total_count, current_start,
                original_start, first_iteration, previous_oldest_timetoken,
                api_ignoring_start>>

\* An error status that does not break the loop.
LoopFetchFailsErrorContinues(resp) ==
    /\ pc = "loop"
    /\ resp.kind \in {"error", "nochannel"}
    /\ Fetched(frame, FetchStart, FetchEnd, resp)
    /\ IF resp.kind = "error" THEN UNCHANGED <<pc, result>> ELSE Return(total_count)
    /\ UNCHANGED <<toolVars, storeVars, frame, loopLocals, range_index, counted>>

\* A missing channel entry that does not break the loop.
LoopFetchFailsNoChannelContinues(resp) ==
    /\ pc = "loop"
    /\ resp.kind \in {"error", "nochannel"}
    /\ Fetched(frame, FetchStart, FetchEnd, resp)
    /\ IF resp.kind = "nochannel" THEN UNCHANGED <<pc, result>> ELSE Return(total_count)
    /\ UNCHANGED <<toolVars, storeVars, frame, loopLocals, range_index, counted>>

\* The envelope has an error status, or no entry for the channel: break.
LoopFetchFails(resp) ==
    /\ pc = "loop"
    /\ resp.kind \in {"error", "nochannel"}
    /\ Fetched(frame, FetchStart, FetchEnd, resp)
    /\ Return(total_count)
    /\ UNCHANGED <<toolVars, storeVars, frame, loopLocals, range_index, counted>>

\* fetch_messages(...).sync() raises inside the try block.
LoopFetchRaises(resp) ==
    /\ pc = "loop"
    /\ resp.kind \in {"pubnub_exception", "exception"}
    /\ Fetched(frame, FetchStart, FetchEnd, resp)
    /\ IF Caught(resp.kind)
       THEN Return(total_count)
       ELSE pc' = "raised" /\ UNCHANGED result
    /\ UNCHANGED <<toolVars, storeVars, frame, loopLocals, range_index, counted>>

\* The end compared with the oldest record of the batch, not the newest.
CountAllMessagesFromOldest(resp) ==
    /\ pc = "loop"
    /\ resp.kind = "ok"
    /\ IgnoredStart(resp.msgs)
    /\ end_timetoken # 0
    /\ end_timetoken > Min(resp.msgs) + EndSlack
    /\ Fetched(frame, FetchStart, FetchEnd, resp)
    /\ frame' = "scan"
    /\ start_timetoken' = 0
    /\ end_timetoken' = 0
    /\ total_count' = 0
    /\ current_start' = 0
    /\ original_start' = 0
    /\ first_iteration' = TRUE
    /\ previous_oldest_timetoken' = 0
    /\ api_ignoring_start' = FALSE
    /\ UNCHANGED <<toolVars, storeVars, pc, range_index, result, counted>>

\* Ignored start, end far beyond the batch: return count_all_messages(...),
\* that is count_messages_in_channel(pubnub, channel, None, None).
CountAllMessages(resp) ==
    /\ pc = "loop"
    /\ resp.kind = "ok"
    /\ IgnoredStart(resp.msgs)
    /\ end_timetoken # 0
    /\ end_timetoken > Max(resp.msgs) + EndSlack
    /\ Fetched(frame, FetchStart, FetchEnd, resp)
    /\ frame' = "scan"
    /\ start_timetoken' = 0
    /\ end_timetoken' = 0
    /\ total_count' = 0
    /\ current_start' = 0
    /\ original_start' = 0
    /\ first_iteration' = TRUE
    /\ previous_oldest_timetoken' = 0
    /\ api_ignoring_start' = FALSE
    /\ UNCHANGED <<toolVars, storeVars, pc, range_index, result, counted>>

\* Ignored start, end near the batch: return find_actual_start_near_end(...).
FindActualStartNearEnd(resp) ==
    /\ pc = "loop"
    /\ resp.kind = "ok"
    /\ IgnoredStart(resp.msgs)
    /\ end_timetoken # 0
    /\ ~(end_timetoken > Max(resp.msgs) + EndSlack)
    /\ Fetched(frame, FetchStart, FetchEnd, resp)
    /\ api_ignoring_start' = TRUE
    /\ pc' = "bisect"
    /\ range_index' = 1
    /\ UNCHANGED <<toolVars, storeVars, frame, start_timetoken, end_timetoken, total_count,
                   current_start, original_start, first_iteration,
                   previous_oldest_timetoken, result, counted>>

\* One batch filtered, counted and tested for the end of the pagination.
LoopBatch(resp) ==
    /\ pc = "loop"
    /\ resp.kind = "ok"
    /\ ~(IgnoredStart(resp.msgs) /\ end_timetoken # 0)
    /\ Fetched(frame, FetchStart, FetchEnd, resp)
    /\ LET raw == resp.msgs
           ignoring == api_ignoring_start \/ IgnoredStart(raw)
           filtered == {t \in raw : ShouldInclude(t, ignoring)}
           total == total_count + Cardinality(filtered)
       IN /\ api_ignoring_start' = ignoring
          /\ Counts(filtered)
          /\ first_iteration' = FALSE
          /\ total_count' = total
          /\ IF StopsAfterBatch(raw, filtered, ignoring)
             THEN /\ Return(total)
                  /\ UNCHANGED <<previous_oldest_timetoken, current_start>>
             ELSE LET oldest == OldestTimetoken(raw, filtered)
                  IN IF NotDecreasing(oldest)
                     THEN /\ Return(total)
                          /\ UNCHANGED <<previous_oldest_timetoken, current_start>>
                     ELSE /\ previous_oldest_timetoken' = oldest
                          /\ current_start' = oldest
                          /\ IF end_timetoken # 0 /\ oldest > end_timetoken
                             THEN Return(total)
                             ELSE UNCHANGED <<pc, result>>
    /\ UNCHANGED <<toolVars, storeVars, frame, start_timetoken, end_timetoken,
                   original_start, range_index>>

\* ------------------------------------------- find_actual_start_near_end
\* Without "if test_start < original_start".
TestStartUnclamped == end_timetoken - search_ranges[range_index]

TestStart ==
    LET test_start == end_timetoken - search_ranges[range_index]
    IN IF test_start < original_start THEN original_start ELSE test_start

\* The search ranges tried over again after the last one.
NextRangeWraps ==
    /\ range_index' = (range_index % Len(search_ranges)) + 1
    /\ UNCHANGED <<pc, result>>

\* continue: the next search range, or "return 0" after the last one.
NextRange ==
    IF range_index = Len(search_ranges)
    THEN Return(0) /\ UNCHANGED range_index
    ELSE range_index' = range_index + 1 /\ UNCHANGED <<pc, result>>

\* The records counted by the bisection.
NearEndMatches(raw) == {t \in raw : t > original_start /\ t <= end_timetoken}

\* The function has no handler: the exception reaches the except clauses of
\* the caller's loop, which breaks and returns its total_count.
BisectRaises(resp) ==
    /\ pc = "bisect"
    /\ resp.kind \in {"pubnub_exception", "exception"}
    /\ Fetched("bisect", TestStart, end_timetoken, resp)
    /\ IF Caught(resp.kind)
       THEN Return(total_count)
       ELSE pc' = "raised" /\ UNCHANGED result
    /\ UNCHANGED <<toolVars, storeVars, frame, loopLocals, range_index, counted>>

\* Error status, no entry for the channel, or no record: continue.
BisectSkips(resp) ==
    /\ pc = "bisect"
    /\ \/ resp.kind \in {"error", "nochannel"}
       \/ resp.kind = "ok" /\ resp.msgs = {}
    /\ Fetched("bisect", TestStart, end_timetoken, resp)
    /\ NextRange
    /\ UNCHANGED <<toolVars, storeVars, frame, loopLocals, counted>>

\* The first range with a record: return its count.
BisectFinds(resp) ==
    /\ pc = "bisect"
    /\ resp.kind = "ok"
    /\ resp.msgs # {}
    /\ Fetched("bisect", TestStart, end_timetoken, resp)
    /\ Counts(NearEndMatches(resp.msgs))
    /\ Return(Cardinality(NearEndMatches(resp.msgs)))
    /\ UNCHANGED <<toolVars, storeVars, frame, loopLocals, range_index>>

Next ==
    \/ \E resp \in Answers(current_start) : LoopFetchFails(resp)
    \/ \E resp \in Answers(current_start) : LoopFetchRaises(resp)
    \/ \E resp \in Answers(current_start) : CountAllMessages(resp)
    \/ \E resp \in Answers(current_start) : FindActualStartNearEnd(resp)
    \/ \E resp \in Answers(current_start) : LoopBatch(resp)
    \/ \E resp \in Answers(TestStart) : BisectRaises(resp)
    \/ \E resp \in Answers(TestStart) : BisectSkips(resp)
    \/ \E resp \in Answers(TestStart) : BisectFinds(resp)

Spec == Init /\ [][Next]_vars

\* ---------------------------------------------------------------- main
\* The tool started from the command line.
CliInit ==
    /\ TesterIdle /\ GalleryIdle /\ MembersIdle
    /\ args \in [start : CliValues, end : CliValues]
    /\ exit_code = 0
    /\ store = "any"
    /\ log = {}
    /\ call_start = 0
    /\ call_end = 0
    /\ pc = "main"
    /\ frame = "main"
    /\ start_timetoken = 0
    /\ end_timetoken = 0
    /\ total_count = 0
    /\ current_start = 0
    /\ original_start = 0
    /\ first_iteration = TRUE
    /\ previous_oldest_timetoken = 0
    /\ api_ignoring_start = FALSE
    /\ range_index = 1
    /\ result = 0
    /\ trace = <<>>
    /\ counted = [t \in Tokens |-> 0]

\* "if args.start and args.end and args.start >= args.end"
Invalid ==
    /\ args.start.value # 0
    /\ args.end.value # 0
    /\ args.start.value >= args.end.value

\* Validation fails: sys.exit(1).
MainRejects ==
    /\ pc = "main"
    /\ Invalid
    /\ pc' = "exit"
    /\ exit_code' = 1
    /\ UNCHANGED <<toolVars, args, store, log, call_start, call_end, frame, loopLocals,
                   range_index, result, trace, counted>>

\* count_messages_in_channel(pubnub, args.channel, args.start, args.end)
MainCounts ==
    /\ pc = "main"
    /\ ~Invalid
    /\ pc' = "loop"
    /\ call_start' = args.start.value
    /\ call_end' = args.end.value
    /\ start_timetoken' = args.start.value
    /\ end_timetoken' = args.end.value
    /\ current_start' = args.start.value
    /\ original_start' = args.start.value
    /\ UNCHANGED <<toolVars, args, exit_code, store, log, frame, total_count, first_iteration,
                   previous_oldest_timetoken, api_ignoring_start, range_index,
                   result, trace, counted>>

\* The count is printed and main returns: exit code 0.
MainReturns ==
    /\ pc = "done"
    /\ pc' = "exit"
    /\ exit_code' = 0
    /\ UNCHANGED <<toolVars, args, store, log, call_start, call_end, frame, loopLocals,
                   range_index, result, trace, counted>>

CliNext ==
    \/ MainRejects
    \/ MainCounts
    \/ MainReturns
    \/ Next

CliSpec == CliInit /\ [][CliNext]_vars

\* The loop runs whenever it can: the script is one thread that never waits.
FairSpec == Spec /\ WF_vars(Next)


\* The message counter, not started: a run of another tool leaves it alone.
CounterIdle ==
    /\ args = [start |-> NoArg, end |-> NoArg]
    /\ exit_code = 0
    /\ store = "any"
    /\ log = {}
    /\ call_start = 0
    /\ call_end = 0
    /\ pc = "idle"
    /\ frame = "main"
    /\ start_timetoken = 0
    /\ end_timetoken = 0
    /\ total_count = 0
    /\ current_start = 0
    /\ original_start = 0
    /\ first_iteration = TRUE
    /\ previous_oldest_timetoken = 0
    /\ api_ignoring_start = FALSE
    /\ range_index = 1
    /\ result = 0
    /\ trace = <<>>
    /\ counted = [t \in Tokens |-> 0]

\* ------------------------------------------------ ChannelGroupTester
\* What one call of the PubNub client can do: a result without or with an
\* error status, a PubNubException, or another exception.
Outcomes == {"ok", "error", "pubnub_exception", "exception"}

\* The channels of a test group, and what list_channels_in_channel_group can
\* answer: result.result.channels is None or a list of channels.
GroupChannels == {1, 2}
ListedChannels ==
    {[is_none |-> TRUE, channels |-> {}]}
        \cup {[is_none |-> FALSE, channels |-> c] : c \in SUBSET GroupChannels}

\* "result.result.channels or []"
ChannelsOrEmpty(listed) == IF listed.is_none THEN {} ELSE listed.channels

\* run_tests: the four tests in their order, then the report.
CreationTest(test_type) == IF test_type = "with_secret" THEN "TEST 1" ELSE "TEST 2"
QueryTest(test_type) == IF test_type = "with_secret" THEN "TEST 3" ELSE "TEST 4"
AfterTest(position) ==
    CASE position = "TEST 1" -> "TEST 2"
      [] position = "TEST 2" -> "TEST 3"
      [] position = "TEST 3" -> "TEST 4"
      [] position = "TEST 4" -> "report"

\* test_data['error_messages'].append(error_msg)
ErrorMessage(test_type, error_msg) ==
    [test_results EXCEPT ![test_type].error_messages = Append(@, error_msg)]

TesterInit ==
    /\ tester_pc = "TEST 1"
    /\ test_results = NoResults
    /\ conclusion = ""
    /\ CounterIdle
    /\ GalleryIdle
    /\ MembersIdle

\* test_channel_group_creation(test_type)
TestChannelGroupCreation(test_type, outcome) ==
    /\ tester_pc = CreationTest(test_type)
    /\ tester_pc' = AfterTest(tester_pc)
    /\ test_results' =
          CASE outcome = "ok" ->
                 [test_results EXCEPT ![test_type].creation_success = TRUE]
            [] outcome = "error" -> ErrorMessage(test_type, "API Error")
            [] outcome = "pubnub_exception" -> ErrorMessage(test_type, "PubNub Exception")
            [] outcome = "exception" -> ErrorMessage(test_type, "General Exception")
    /\ UNCHANGED <<conclusion, counterVars, galleryVars, membersVars>>

\* test_channel_group_query(test_type)
TestChannelGroupQuery(test_type, outcome, listed) ==
    /\ tester_pc = QueryTest(test_type)
    /\ tester_pc' = AfterTest(tester_pc)
    /\ test_results' =
          CASE outcome = "ok" ->
                 [test_results EXCEPT ![test_type].query_success = TRUE,
                                      ![test_type].channels_found = ChannelsOrEmpty(listed)]
            [] outcome = "error" -> ErrorMessage(test_type, "Query API Error")
            [] outcome = "pubnub_exception" ->
                 ErrorMessage(test_type, "Query PubNub Exception")
            [] outcome = "exception" -> ErrorMessage(test_type, "Query General Exception")
    /\ UNCHANGED <<conclusion, counterVars, galleryVars, membersVars>>

\* The conclusion generate_summary_report draws from the four outcomes.
Conclusion(with_secret, without_secret) ==
    LET both_creation_success ==
            with_secret.creation_success /\ without_secret.creation_success
        both_query_success ==
            with_secret.query_success /\ without_secret.query_success
    IN CASE both_creation_success /\ both_query_success -> "SECRET_KEY_NOT_REQUIRED"
         [] ~(both_creation_success /\ both_query_success)
              /\ with_secret.creation_success /\ ~without_secret.creation_success
                -> "SECRET_KEY_REQUIRED"
         [] ~(both_creation_success /\ both_query_success)
              /\ ~with_secret.creation_success /\ without_secret.creation_success
                -> "SECRET_KEY_INTERFERES"
         [] OTHER -> "INCONCLUSIVE"

GenerateSummaryReport ==
    /\ tester_pc = "report"
    /\ conclusion' = Conclusion(test_results["with_secret"], test_results["without_secret"])
    /\ tester_pc' = "done"
    /\ UNCHANGED <<test_results, counterVars, galleryVars, membersVars>>

TesterNext ==
    \/ \E t \in TestTypes, o \in Outcomes : TestChannelGroupCreation(t, o)
    \/ \E t \in TestTypes, o \in Outcomes, l \in ListedChannels :
            TestChannelGroupQuery(t, o, l)
    \/ GenerateSummaryReport

TesterSpec == TesterInit /\ [][TesterNext]_vars


\* ------------------------------------------------------ upload_gallery
\* main() of upload_gallery with --count images; --cleanup is a store_true
\* flag whose default is True, so args.cleanup is always true.  Temporary
\* files are numbered in the order of their creation; os.unlink succeeds.
GalleryInit ==
    /\ count \in 0..MaxCount
    /\ gallery_pc = (IF count = 0 THEN "finally" ELSE "download")
    /\ GalleryLocals
    /\ CounterIdle
    /\ TesterIdle
    /\ MembersIdle

\* The exceptions the except clauses of download_random_image catch.
DownloadErrors == {"RequestException", "Exception"}

\* tempfile.NamedTemporaryFile(suffix='.jpg', delete=False)
NamedTemporaryFile == created + 1

\* download_random_image returns (file, message) to main; file 0 is None.
Returns(file) ==
    /\ calls' = Append(calls, [attempts |-> attempt + 1, temp_file |-> file])
    /\ attempt' = 0

\* The end of one pass of "for i in range(args.count)".
NextImage ==
    /\ image' = image + 1
    /\ gallery_pc' = (IF image + 1 < count THEN "download" ELSE "finally")

\* "if temp_file is None: failed += 1 ... continue"
DownloadFailed ==
    /\ Returns(0)
    /\ failed' = failed + 1
    /\ NextImage

\* The except clauses: return None after the last attempt, else continue.
Retry ==
    IF attempt = max_retries - 1
    THEN DownloadFailed
    ELSE /\ attempt' = attempt + 1
         /\ UNCHANGED <<gallery_pc, image, failed, calls>>

\* requests.get or raise_for_status raises: no temporary file yet.
DownloadFails(error) ==
    /\ gallery_pc = "download"
    /\ error \in DownloadErrors
    /\ Retry
    /\ UNCHANGED <<count, disk, created, downloaded_files, temp_file, successful,
                   aborted, counterVars, testerVars, membersVars>>

\* iter_content or write raises after the temporary file was created.
DownloadBreaksOff(error) ==
    /\ gallery_pc = "download"
    /\ error \in DownloadErrors
    /\ created' = NamedTemporaryFile
    /\ disk' = disk \cup {NamedTemporaryFile}
    /\ Retry
    /\ UNCHANGED <<count, downloaded_files, temp_file, successful, aborted,
                   counterVars, testerVars, membersVars>>

\* The image is larger than 5 MB: os.unlink and return None.
DownloadTooLarge ==
    /\ gallery_pc = "download"
    /\ created' = NamedTemporaryFile
    /\ DownloadFailed
    /\ UNCHANGED <<count, disk, downloaded_files, temp_file, successful, aborted,
                   counterVars, testerVars, membersVars>>

\* The image is written: return its name; main appends it to downloaded_files.
DownloadSucceeds ==
    /\ gallery_pc = "download"
    /\ created' = NamedTemporaryFile
    /\ disk' = disk \cup {NamedTemporaryFile}
    /\ Returns(NamedTemporaryFile)
    /\ temp_file' = NamedTemporaryFile
    /\ downloaded_files' = Append(downloaded_files, NamedTemporaryFile)
    /\ gallery_pc' = "upload"
    /\ UNCHANGED <<count, image, successful, failed, aborted,
                   counterVars, testerVars, membersVars>>

\* upload_file(...): True, or False when send_file raises.
UploadFile(success) ==
    /\ gallery_pc = "upload"
    /\ IF success
       THEN successful' = successful + 1 /\ UNCHANGED failed
       ELSE failed' = failed + 1 /\ UNCHANGED successful
    /\ temp_file' = 0
    /\ NextImage
    /\ UNCHANGED <<count, attempt, disk, created, downloaded_files, aborted, calls,
                   counterVars, testerVars, membersVars>>

\* An exception that no except clause catches (KeyboardInterrupt) inside the
\* try block of main; writing: raised while a download writes its file.
KeyboardInterrupt(writing) ==
    /\ gallery_pc \in {"download", "upload"}
    /\ writing => gallery_pc = "download"
    /\ IF writing
       THEN /\ created' = NamedTemporaryFile
            /\ disk' = disk \cup {NamedTemporaryFile}
       ELSE UNCHANGED <<created, disk>>
    /\ aborted' = TRUE
    /\ gallery_pc' = "finally"
    /\ UNCHANGED <<count, image, attempt, downloaded_files, temp_file, successful,
                   failed, calls, counterVars, testerVars, membersVars>>

\* The finally block, then the summary and sys.exit, or the exception going on.
Finally ==
    /\ gallery_pc = "finally"
    /\ disk' = disk \ {downloaded_files[n] : n \in 1..Len(downloaded_files)}
    /\ gallery_pc' = (IF aborted THEN "raised" ELSE "exit")
    /\ UNCHANGED <<count, image, attempt, created, downloaded_files, temp_file,
                   successful, failed, aborted, calls,
                   counterVars, testerVars, membersVars>>

GalleryNext ==
    \/ \E error \in DownloadErrors : DownloadFails(error)
    \/ \E error \in DownloadErrors : DownloadBreaksOff(error)
    \/ DownloadTooLarge
    \/ DownloadSucceeds
    \/ \E success \in BOOLEAN : UploadFile(success)
    \/ \E writing \in BOOLEAN : KeyboardInterrupt(writing)
    \/ Finally

GallerySpec == GalleryInit /\ [][GalleryNext]_vars


\* --------------------------------------------------- create_memberships
\* membership_ratio as a fraction: 0, the default 0.3, 1 and 2.
Ratios == {[num |-> 0, den |-> 1], [num |-> 3, den |-> 10],
           [num |-> 1, den |-> 1], [num |-> 2, den |-> 1]}

\* create_memberships(users, channels, membership_ratio, batch_size) called.
MembersInit ==
    /\ members_pc = "start"
    /\ users \in 0..MaxUsers
    /\ channels \in 0..MaxChannels
    /\ membership_ratio \in Ratios
    /\ MembersLocals
    /\ CounterIdle
    /\ TesterIdle
    /\ GalleryIdle

\* "int(total_possible * membership_ratio)"
TargetMemberships ==
    (users * channels * membership_ratio.num) \div membership_ratio.den

\* The first statements: the target and the guaranteed channel ("general" if
\* it is among the channels, else random.choice(channels), which raises
\* IndexError on an empty list).
CreateMemberships ==
    /\ members_pc = "start"
    /\ IF channels = 0
       THEN /\ members_pc' = "raised"
            /\ UNCHANGED <<guaranteed_channel, target_memberships, user_index>>
       ELSE /\ guaranteed_channel' \in 1..channels
            /\ target_memberships' = TargetMemberships
            /\ user_index' = 1
            /\ members_pc' = "guaranteed"
    /\ UNCHANGED <<users, channels, membership_ratio, membership_count,
                   additional_needed, created_additional, batch_memberships,
                   counterVars, testerVars, galleryVars>>

\* One pass of "for i, user_id in enumerate(users)": set_memberships for the
\* guaranteed channel; only PubNubException is caught.
GuaranteedMembership(outcome) ==
    /\ members_pc = "guaranteed"
    /\ user_index <= users
    /\ IF outcome = "exception"
       THEN members_pc' = "raised" /\ UNCHANGED <<membership_count, user_index>>
       ELSE /\ membership_count' = membership_count + (IF outcome = "ok" THEN 1 ELSE 0)
            /\ user_index' = user_index + 1
            /\ UNCHANGED members_pc
    /\ UNCHANGED <<users, channels, membership_ratio, guaranteed_channel,
                   target_memberships, additional_needed, created_additional,
                   batch_memberships, counterVars, testerVars, galleryVars>>

\* "additional_needed = target_memberships - membership_count"
AdditionalNeeded ==
    /\ members_pc = "guaranteed"
    /\ user_index > users
    /\ additional_needed' = target_memberships - membership_count
    /\ created_additional' = 0
    /\ members_pc' = "while"
    /\ UNCHANGED <<users, channels, membership_ratio, guaranteed_channel,
                   target_memberships, membership_count, user_index,
                   batch_memberships, counterVars, testerVars, galleryVars>>

\* "min(batch_size, additional_needed - created_additional)"
BatchLength ==
    IF BatchSize < additional_needed - created_additional
    THEN BatchSize ELSE additional_needed - created_additional

\* A pick of the guaranteed channel is skipped.
NotGuaranteed(pick) == pick[2] # guaranteed_channel

\* The head of the while loop and the inner for loop: random picks of a user
\* and a channel.
BuildBatch(picks) ==
    /\ members_pc = "while"
    /\ created_additional < additional_needed
    /\ picks \in [1..BatchLength -> (1..users) \X (1..channels)]
    /\ batch_memberships' = SelectSeq(picks, NotGuaranteed)
    /\ members_pc' = "execute"
    /\ UNCHANGED <<users, channels, membership_ratio, guaranteed_channel,
                   target_memberships, membership_count, user_index,
                   additional_needed, created_additional,
                   counterVars, testerVars, galleryVars>>

\* One pass of "for ... in batch_memberships": only PubNubException is caught.
ExecuteMembership(outcome) ==
    /\ members_pc = "execute"
    /\ batch_memberships # <<>>
    /\ IF outcome = "exception"
       THEN /\ members_pc' = "raised"
            /\ UNCHANGED <<membership_count, created_additional, batch_memberships>>
       ELSE /\ batch_memberships' = Tail(batch_memberships)
            /\ created_additional' = created_additional + (IF outcome = "ok" THEN 1 ELSE 0)
            /\ membership_count' = membership_count + (IF outcome = "ok" THEN 1 ELSE 0)
            /\ UNCHANGED members_pc
    /\ UNCHANGED <<users, channels, membership_ratio, guaranteed_channel,
                   target_memberships, user_index, additional_needed,
                   counterVars, testerVars, galleryVars>>

\* The batch is executed: progress update, sleep, back to the loop test.
BatchDone ==
    /\ members_pc = "execute"
    /\ batch_memberships = <<>>
    /\ members_pc' = "while"
    /\ UNCHANGED <<users, channels, membership_ratio, guaranteed_channel,
                   target_memberships, membership_count, user_index,
                   additional_needed, created_additional, batch_memberships,
                   counterVars, testerVars, galleryVars>>

\* "while created_additional < additional_needed" is false: return.
MembershipsComplete ==
    /\ members_pc = "while"
    /\ ~(created_additional < additional_needed)
    /\ members_pc' = "done"
    /\ UNCHANGED <<users, channels, membership_ratio, guaranteed_channel,
                   target_memberships, membership_count, user_index,
                   additional_needed, created_additional, batch_memberships,
                   counterVars, testerVars, galleryVars>>

MembersNext ==
    \/ CreateMemberships
    \/ \E outcome \in Outcomes : GuaranteedMembership(outcome)
    \/ AdditionalNeeded
    \/ \E picks \in [1..BatchLength -> (1..users) \X (1..channels)] : BuildBatch(picks)
    \/ \E outcome \in Outcomes : ExecuteMembership(outcome)
    \/ BatchDone
    \/ MembershipsComplete

MembersSpec == MembersInit /\ [][MembersNext]_vars

\* The coroutine runs whenever it can; nothing is assumed of the store or of
\* the random picks.
MembersFairSpec == MembersSpec /\ WF_vars(MembersNext)


\* ============================================================ properties
\* What the properties read from the fetches issued so far.
Failure == {"error", "pubnub_exception", "exception"}
Exceptions == {"pubnub_exception", "exception"}
NumFetches == Len(trace)
Batch(i) == trace[i].resp.msgs
Done == pc = "done"

\* A record in the range the caller asked for: start exclusive, end inclusive.
InRange(t) ==
    /\ call_start # 0 => t > call_start
    /\ call_end # 0 => t <= call_end
Matching(b) == {t \in b : InRange(t)}

RECURSIVE SumMatching(_)
SumMatching(k) == IF k = 0 THEN 0 ELSE SumMatching(k - 1) + Cardinality(Matching(Batch(k)))

\* The raw sizes of the batches of the full scan among the first k fetches.
RECURSIVE SumRawScan(_)
SumRawScan(k) ==
    IF k = 0 THEN 0
    ELSE SumRawScan(k - 1)
            + (IF trace[k].proc = "scan" THEN Cardinality(Batch(k)) ELSE 0)

RECURSIVE SumCounted(_)
SumCounted(S) ==
    IF S = {} THEN 0
    ELSE LET t == CHOOSE x \in S : TRUE IN counted[t] + SumCounted(S \ {t})

\* The first batch is non-empty and its oldest token is more than StartSlack
\* above the requested start.
DetectionFires ==
    /\ NumFetches >= 1
    /\ call_start # 0
    /\ trace[1].resp.kind = "ok"
    /\ Batch(1) # {}
    /\ Min(Batch(1)) - call_start > StartSlack

\* The value returned is the number of additions to the count (checked with
\* every property below: counted is the record of total_count).
CountedIsResult ==
    Done => result = SumCounted(Tokens)

\* C1 (as claimed): when end is set, every record that contributes to the
\* value returned has token <= end, on the main loop, in the backward
\* bisection and in the unbounded full scan.
C1_EndNeverExceeded ==
    call_end # 0 => \A t \in Tokens : counted[t] > 0 => t <= call_end

\* C2: when start is set and the ignored-start detection does not fire on the
\* first batch, no record with token <= start contributes to the count.
C2_StartExclusive ==
    (call_start # 0 /\ NumFetches >= 1 /\ ~DetectionFires)
        => \A t \in Tokens : counted[t] > 0 => t > call_start

\* A record with token = start was fetched and left out of the count returned.
C2_Witness ==
    /\ Done
    /\ call_start # 0
    /\ ~DetectionFires
    /\ \E i \in 1..NumFetches : call_start \in Batch(i)
    /\ result > 0

\* C3: whatever the store does at a fetch of the main loop, of the bisection
\* or of the full scan (error status, no channel entry, exception), no
\* exception leaves count_messages_in_channel and the value returned is a
\* count.
C3_NeverRaises ==
    /\ pc # "raised"
    /\ Done => result \in Nat

\* An exception other than PubNubException raised by a fetch of the
\* bisection or of the full scan.
C3_Witness ==
    /\ Done
    /\ NumFetches >= 2
    /\ trace[NumFetches].resp.kind = "exception"
    /\ trace[NumFetches].proc \in {"bisect", "scan"}

\* C4: if the k-th fetch of the main loop returns an error status or raises,
\* it is the last fetch and the value returned is the sum of the matching
\* counts of the batches 1..k-1.
C4_PartialCountOnError ==
    \A k \in 1..NumFetches :
        (trace[k].proc = "main" /\ trace[k].resp.kind \in Failure)
            => /\ NumFetches = k
               /\ Done
               /\ result = SumMatching(k - 1)

\* The third fetch fails after two batches that both added to the count.
C4_Witness ==
    /\ NumFetches = 3
    /\ trace[3].proc = "main"
    /\ trace[3].resp.kind \in Failure
    /\ Matching(Batch(1)) # {}
    /\ Matching(Batch(2)) # {}
    /\ Matching(Batch(1)) # Batch(1)
    /\ result = SumMatching(2)

\* C5: every invocation returns after finitely many fetches, also when it
\* hands off to the bisection or to the full scan.
\* The fetches of a loop are finitely many because each iteration that goes
\* on lowers a positive integer (the cursor), and those of the bisection
\* because each raises the position in search_ranges.
C5_Terminates ==
    /\ [][(pc = "loop" /\ pc' = "loop" /\ frame' = frame)
            => /\ previous_oldest_timetoken' > 0
               /\ previous_oldest_timetoken # 0
                    => previous_oldest_timetoken' < previous_oldest_timetoken]_vars
    /\ [][(pc = "bisect" /\ pc' = "bisect")
            => /\ range_index' > range_index
               /\ range_index' <= Len(search_ranges)]_vars
    /\ <>(pc = "done")

\* An invocation that returned after the full scan paged twice.
C5_Witness ==
    /\ Done
    /\ NumFetches >= 4
    /\ trace[NumFetches].proc = "scan"

\* C6: with neither start nor end, against a fixed log that answers each
\* fetch with the newest page strictly older than the cursor, the value
\* returned is the number of records of the log.
C6_CountsWholeLog ==
    (Done /\ store = "log") => result = Cardinality(log)

\* A log of exactly two full pages was counted.
C6_Witness ==
    /\ Done
    /\ store = "log"
    /\ Cardinality(log) = 2 * PageSize
    /\ result = 2 * PageSize

\* C7 (as claimed): with start set, end not set and ignored start detected,
\* the full scan is invoked and its total (the raw sizes of its batches) is
\* the value returned.
C7_FullScanWithoutEnd ==
    (Done /\ call_end = 0 /\ DetectionFires)
        => /\ \E i \in 1..NumFetches : trace[i].proc = "scan"
           /\ result = SumRawScan(NumFetches)

\* C7 (amended): with start set, end not set and ignored start detected, no
\* full scan and no bisection is invoked: the main loop goes on, every later
\* fetch carries a cursor, and the value returned is the number of records
\* with token > start in the batches fetched.
C7_FilteredCountWithoutEnd ==
    (call_end = 0 /\ DetectionFires)
        => /\ \A i \in 1..NumFetches : trace[i].proc = "main" /\ trace[i].start # 0
           /\ api_ignoring_start
           /\ Done => result = SumMatching(NumFetches)

\* Ignored start without end: a later batch held a record at or below start.
C7_Witness ==
    /\ Done
    /\ call_end = 0
    /\ DetectionFires
    /\ NumFetches >= 2
    /\ \E i \in 2..NumFetches : call_start \in Batch(i)
    /\ result = SumMatching(NumFetches)

\* The first fetch answered with one short, non-empty batch wholly in range.
ShortBatchInRange ==
    /\ NumFetches >= 1
    /\ trace[1].resp.kind = "ok"
    /\ Batch(1) # {}
    /\ Cardinality(Batch(1)) < PageSize
    /\ \A t \in Batch(1) : InRange(t)

\* C8 (as claimed): for every start and end, a short first batch wholly in
\* range is the only fetch and its size is the value returned.
C8_ShortBatchOneFetch ==
    ShortBatchInRange
        => NumFetches = 1 /\ Done /\ result = Cardinality(Batch(1))

\* C8 (amended): a short first batch wholly in range is the only fetch and
\* its size is the value returned, unless end is set and the ignored-start
\* detection fires on that batch (the counter then hands off to the full scan
\* or to the bisection).
C8_ShortBatchOneFetchNoHandOff ==
    (ShortBatchInRange /\ ~(DetectionFires /\ call_end # 0))
        => NumFetches = 1 /\ Done /\ result = Cardinality(Batch(1))

\* A short batch in range with both bounds set, and one with ignored start.
C8_Witness ==
    /\ ShortBatchInRange
    /\ Done
    /\ call_start # 0
    /\ \/ call_end # 0
       \/ DetectionFires

\* C9: a first fetch with zero records, or without an entry for the channel,
\* is the only fetch and the value returned is 0, whatever start and end are.
C9_EmptyFirstBatch ==
    (NumFetches >= 1 /\ trace[1].resp.kind \in {"ok", "nochannel"} /\ Batch(1) = {})
        => NumFetches = 1 /\ Done /\ result = 0

\* An empty first answer with both bounds set.
C9_Witness ==
    /\ Done
    /\ NumFetches = 1
    /\ trace[1].resp.kind = "nochannel"
    /\ call_start # 0
    /\ call_end # 0

\* C10 (as claimed): no token is added to the total more than once, so the
\* value returned is the number of distinct counted tokens.
C10_NoTokenTwice ==
    /\ \A t \in Tokens : counted[t] <= 1
    /\ Done => result = Cardinality({t \in Tokens : counted[t] > 0})


\* C11: no two fetches of the loop of one invocation (the caller's, or the
\* one of the full scan) carry the same cursor, the caller's start included.
C11_NoCursorTwice ==
    \A i, j \in 1..NumFetches :
        (i < j /\ trace[i].proc = trace[j].proc /\ trace[i].proc \in {"main", "scan"})
            => trace[i].start # trace[j].start

\* Three fetches of the caller's loop; a batch held the record at start and
\* the cursor went below start.
C11_Witness ==
    /\ NumFetches >= 3
    /\ \A i \in 1..3 : trace[i].proc = "main"
    /\ call_start # 0
    /\ call_start \in Batch(2)
    /\ trace[3].start < call_start

\* C12 (as claimed): with --start and --end both supplied and start >= end
\* the tool exits with code 1 and no fetch is ever issued.
C12_InvalidRangeExits ==
    (pc # "main" /\ args.start.given /\ args.end.given
        /\ args.start.value >= args.end.value)
        => pc = "exit" /\ exit_code = 1 /\ NumFetches = 0


\* The step the program takes when the fetch it is about to issue fails in
\* the given way.
FailsWith(kind) ==
    LET resp == Envelope(kind, {})
    IN \/ LoopFetchFails(resp)
       \/ LoopFetchRaises(resp)
       \/ BisectSkips(resp)
       \/ BisectRaises(resp)

\* C13 (as claimed): wherever a fetch is about to be issued (main loop, full
\* scan, bisection), its failing with an error status and its failing with
\* an exception lead to the same outcome: the same value returned and no
\* fetch afterwards.
C13_FailuresAlike ==
    \A p \in {"loop", "bisect", "done", "raised"} :
        \A r \in {0, result, total_count} :
            (ENABLED (FailsWith("error") /\ pc' = p /\ result' = r))
                <=> (ENABLED (FailsWith("exception") /\ pc' = p /\ result' = r))

\* Ignored start detected on the first batch with end set.
HandOff == DetectionFires /\ call_end # 0
ScanChosen == call_end > Max(Batch(1)) + EndSlack

\* What the bisection returned: the records in range of its last answer when
\* that answer holds a record, 0 when no range held one or a fetch raised.
BisectionResult ==
    LET last == trace[NumFetches]
    IN IF last.proc = "bisect" /\ last.resp.kind = "ok" /\ last.resp.msgs # {}
       THEN Cardinality({t \in last.resp.msgs : t > call_start /\ t <= call_end})
       ELSE 0

\* C14: with ignored start detected on the first batch and end set, every
\* later fetch is one of the full scan if end > newest + EndSlack and one of
\* the bisection otherwise, and the value returned is that procedure's: the
\* first batch adds nothing and the caller's loop fetches no more.
C14_HandOffResult ==
    HandOff
        => /\ \A i \in 2..NumFetches :
                trace[i].proc = (IF ScanChosen THEN "scan" ELSE "bisect")
           /\ pc # "done" => (IF ScanChosen
                               THEN pc = "loop" /\ frame = "scan"
                               ELSE pc = "bisect")
           /\ Done => result = (IF ScanChosen THEN SumRawScan(NumFetches)
                                ELSE BisectionResult)

\* A full scan of two pages after a first batch that was in range.
C14_Witness ==
    /\ Done
    /\ HandOff
    /\ ScanChosen
    /\ Matching(Batch(1)) # {}
    /\ NumFetches >= 3
    /\ result = SumRawScan(NumFetches)
    /\ result > 0

\* C15: the j-th fetch of the bisection has start = max(end - W_j, start)
\* with W_j the j-th search range and end = end; the first answer that holds
\* a record ends the bisection, which returns the number of its records with
\* start < token <= end, also for a full page and when none is in range.
C15_BisectionWidths ==
    \A k \in 1..NumFetches :
        trace[k].proc = "bisect"
            => /\ k - 1 \in 1..Len(search_ranges)
               /\ trace[k].start
                    = (IF call_end - search_ranges[k - 1] < call_start
                       THEN call_start ELSE call_end - search_ranges[k - 1])
               /\ trace[k].end = call_end
               /\ (trace[k].resp.kind = "ok" /\ Batch(k) # {})
                    => /\ NumFetches = k
                       /\ Done
                       /\ result = Cardinality({t \in Batch(k) :
                                        t > call_start /\ t <= call_end})

\* The third range answered with a full page of which no record is in range.
C15_Witness ==
    /\ Done
    /\ NumFetches = 4
    /\ trace[4].proc = "bisect"
    /\ trace[4].resp.kind = "ok"
    /\ Cardinality(Batch(4)) = PageSize
    /\ result = 0

\* C16 (as claimed): an error status at a fetch of the bisection ends it: no
\* wider range is queried and the count so far (0) is returned.
C16_BisectionErrorEnds ==
    \A k \in 1..NumFetches :
        (trace[k].proc = "bisect" /\ trace[k].resp.kind = "error")
            => NumFetches = k /\ Done /\ result = 0


\* C17 (as claimed): once ignored start is detected, on every path a record
\* is counted only if its token is above the caller's start (and not above
\* end when end is set).
C17_LowerBoundKept ==
    DetectionFires => \A t \in Tokens : counted[t] > 0 => InRange(t)

\* C18: api_ignoring_start changes only by becoming true, only while the
\* first batch of the invocation is processed, and only if start is set, the
\* batch is non-empty and start < (its oldest token - StartSlack).
C18_IgnoringSetOnce ==
    [][api_ignoring_start' # api_ignoring_start
        => /\ api_ignoring_start'
           /\ NumFetches = 0
           /\ call_start # 0
           /\ trace'[1].resp.kind = "ok"
           /\ trace'[1].resp.msgs # {}
           /\ call_start < Min(trace'[1].resp.msgs) - StartSlack]_vars

\* The flag was set on the first batch and a later batch was processed.
C18_Witness ==
    /\ api_ignoring_start
    /\ NumFetches >= 2
    /\ trace[2].proc = "main"
    /\ trace[2].resp.kind = "ok"

\* The k-th fetch is a batch processed by the caller's loop (not handed off).
Processed(k) ==
    /\ trace[k].proc = "main"
    /\ trace[k].resp.kind = "ok"
    /\ ~(k = 1 /\ HandOff)

\* The cursor candidate of a batch: the oldest token of its filtered subset
\* if that is non-empty, of the raw batch otherwise.
Candidate(k) ==
    IF Matching(Batch(k)) # {} THEN Min(Matching(Batch(k))) ELSE Min(Batch(k))

\* The termination conditions listed for a processed batch.
ListedStop(k) ==
    \/ Batch(k) = {}
    \/ call_end # 0 /\ Max(Batch(k)) > call_end
    \/ Cardinality(Batch(k)) < PageSize
    \/ call_end # 0 /\ Min(Batch(k)) > call_end
    \/ k > 1 /\ Candidate(k) >= Candidate(k - 1)
    \/ call_end # 0 /\ Candidate(k) > call_end

\* C19 (as claimed): a processed batch that meets none of the listed
\* conditions is followed by another fetch of the loop, whose start is the
\* batch's cursor candidate.
C19_ContinuesOtherwise ==
    \A k \in 1..NumFetches :
        (Processed(k) /\ ~ListedStop(k))
            => IF NumFetches > k
               THEN trace[k + 1].proc = "main" /\ trace[k + 1].start = Candidate(k)
               ELSE pc = "loop"

\* The k-th fetch is a batch of the caller's loop whose newest token is
\* beyond the end.
PastEnd(k) ==
    /\ trace[k].proc = "main"
    /\ trace[k].resp.kind = "ok"
    /\ Batch(k) # {}
    /\ call_end # 0
    /\ Max(Batch(k)) > call_end

\* C20 (as claimed): a batch whose newest token exceeds end is the last one
\* fetched and its records in range are part of the value returned.
C20_PastEndIsLast ==
    \A k \in 1..NumFetches :
        PastEnd(k) => NumFetches = k /\ Done /\ result = SumMatching(k)

\* C20 (amended): a batch whose newest token exceeds end is the last one
\* fetched and its records in range are part of the value returned, unless
\* it is the first batch and ignored start is detected on it (the counter
\* then hands off to the bisection or the full scan without counting it).
C20_PastEndIsLastNoHandOff ==
    \A k \in 1..NumFetches :
        (PastEnd(k) /\ ~(k = 1 /\ HandOff))
            => NumFetches = k /\ Done /\ result = SumMatching(k)

\* A batch with a record in range and a record beyond end, both bounds set.
C20_Witness ==
    /\ Done
    /\ NumFetches >= 1
    /\ PastEnd(NumFetches)
    /\ ~HandOff
    /\ call_start # 0
    /\ Matching(Batch(NumFetches)) # {}
    /\ result = SumMatching(NumFetches)


\* The k-th fetch is a batch of a pagination loop (the caller's or the one
\* of the full scan) that the loop went on to process.
LoopProcessed(k) ==
    /\ trace[k].proc \in {"main", "scan"}
    /\ trace[k].resp.kind = "ok"
    /\ ~(k = 1 /\ HandOff)

\* C21: a batch with fewer than PageSize raw records is the last batch of
\* the pagination loop that fetched it (main loop or full scan): no fetch
\* follows it and the invocation returns, the first batch that hands off to
\* the bisection or the full scan aside.
C21_ShortBatchIsLast ==
    \A k \in 1..NumFetches :
        (LoopProcessed(k) /\ Cardinality(Batch(k)) < PageSize)
            => NumFetches = k /\ Done

\* A full scan ended by a short, non-empty batch after a full page.
C21_Witness ==
    /\ Done
    /\ NumFetches >= 3
    /\ trace[NumFetches].proc = "scan"
    /\ trace[NumFetches].resp.kind = "ok"
    /\ Batch(NumFetches) # {}
    /\ Cardinality(Batch(NumFetches)) < PageSize
    /\ Cardinality(Batch(NumFetches - 1)) = PageSize

\* The cursor candidate of a batch of either loop: the full scan has no
\* bounds, so every record of its batches passes the filter.
CursorCandidate(k) ==
    IF trace[k].proc = "scan" THEN Min(Batch(k)) ELSE Candidate(k)

\* The total after the first k fetches of the loop that issued the k-th.
TotalAfter(k) ==
    IF trace[k].proc = "scan" THEN SumRawScan(k) ELSE SumMatching(k)

\* C22: if the cursor candidate of a batch is greater than or equal to the
\* cursor candidate of the batch before it in the same loop, the loop stops:
\* no further fetch is issued and the total so far is returned, whether or
\* not the store was found to ignore the start.
C22_NoProgressStops ==
    \A k \in 2..NumFetches :
        (/\ LoopProcessed(k) /\ LoopProcessed(k - 1)
         /\ trace[k].proc = trace[k - 1].proc
         /\ Batch(k) # {}
         /\ CursorCandidate(k) >= CursorCandidate(k - 1))
            => NumFetches = k /\ Done /\ result = TotalAfter(k)

\* With the start ignored and no end, a full page repeated the candidate of
\* the page before it and the loop returned the total.
C22_Witness ==
    /\ Done
    /\ api_ignoring_start
    /\ call_end = 0
    /\ NumFetches >= 2
    /\ trace[NumFetches].resp.kind = "ok"
    /\ Cardinality(Batch(NumFetches)) = PageSize
    /\ CursorCandidate(NumFetches) >= CursorCandidate(NumFetches - 1)
    /\ result = SumMatching(NumFetches)
    /\ result > 0

\* C23 (as claimed): every fetch of a loop after its first uses a cursor
\* strictly smaller than the cursor of the fetch before it, whenever that
\* earlier fetch had a cursor.
C23_CursorDecreases ==
    \A k \in 2..NumFetches :
        (/\ trace[k].proc \in {"main", "scan"}
         /\ trace[k].proc = trace[k - 1].proc
         /\ trace[k - 1].start # 0)
            => trace[k].start < trace[k - 1].start

\* C23 (amended): every fetch of a loop after its first uses a cursor
\* strictly smaller than the cursor of the fetch before it, whenever that
\* earlier fetch had a cursor, except for the second fetch when the first
\* batch holds a record in range: its cursor is the oldest such record, which
\* is above the cursor of the first fetch (the caller's start).
C23_CursorDecreasesAfterCandidate ==
    \A k \in 2..NumFetches :
        (/\ trace[k].proc \in {"main", "scan"}
         /\ trace[k].proc = trace[k - 1].proc
         /\ trace[k - 1].start # 0)
            => IF k = 2 /\ Matching(Batch(1)) # {}
               THEN /\ trace[2].start = Min(Matching(Batch(1)))
                    /\ trace[2].start > trace[1].start
               ELSE trace[k].start < trace[k - 1].start

\* The second cursor is above the caller's start and the third below the
\* second.
C23_Witness ==
    /\ NumFetches >= 3
    /\ \A i \in 1..3 : trace[i].proc = "main"
    /\ call_start # 0
    /\ trace[2].start > trace[1].start
    /\ trace[3].start < trace[2].start

\* C27: every fetch of the caller's loop carries the end whenever end is
\* set: api_ignoring_start and a set end never hold together where a fetch
\* of the loop is built, so the end is never suppressed.
C27_EndAlwaysCarried ==
    /\ \A k \in 1..NumFetches :
            (trace[k].proc = "main" /\ call_end # 0) => trace[k].end = call_end
    /\ pc = "loop" => ~(api_ignoring_start /\ end_timetoken # 0)
    /\ pc = "loop" => FetchEnd = end_timetoken

\* A second fetch of the caller's loop with a start and an end in the
\* distant future.
C27_Witness ==
    /\ NumFetches >= 2
    /\ trace[2].proc = "main"
    /\ call_start # 0
    /\ call_end > DistantFuture
    /\ trace[2].end = call_end

\* C29: whenever end is set and the loop has computed a next cursor, that
\* cursor is <= end: the stop "next start beyond end" never ends the loop.
C29_CursorWithinEnd ==
    (end_timetoken # 0 /\ previous_oldest_timetoken # 0)
        => /\ current_start = previous_oldest_timetoken
           /\ current_start <= end_timetoken

\* With end set the loop computed a cursor and goes on to fetch with it.
C29_Witness ==
    /\ pc = "loop"
    /\ end_timetoken # 0
    /\ previous_oldest_timetoken # 0
    /\ call_start = 0
    /\ NumFetches >= 2

\* The fetches of the bisection among those issued so far.
BisectFetches == {k \in 1..NumFetches : trace[k].proc = "bisect"}

\* C30: one call of the bisection issues at most as many fetches as there
\* are search ranges (5), the value returned is 0 when no range yields a
\* record, and it is never more than the page size.
C30_BisectionBounded ==
    /\ Cardinality(BisectFetches) <= 5
    /\ Len(search_ranges) = 5
    /\ (Done /\ BisectFetches # {})
        => /\ result <= PageSize
           /\ (\A k \in BisectFetches : Batch(k) = {}) => result = 0

\* All five ranges were tried and none held a record.
C30_Witness ==
    /\ Done
    /\ Cardinality(BisectFetches) = 5
    /\ \A k \in BisectFetches : trace[k].resp.kind \in {"ok", "nochannel"}
    /\ result = 0


\* C24 (as claimed): for every combination of the four outcomes (creation
\* and query, with and without secret key) the report concludes INCONCLUSIVE
\* only when the creation of the channel group failed in both configurations.
C24_InconclusiveOnlyIfBothFailed ==
    (tester_pc = "done" /\ conclusion = "INCONCLUSIVE")
        => /\ ~test_results["with_secret"].creation_success
           /\ ~test_results["without_secret"].creation_success


\* C25 (as claimed): download_random_image makes at most max_retries
\* attempts, returns a file at the first attempt that succeeds, and returns
\* None only after max_retries attempts have been made.
C25_NoneOnlyAfterAllAttempts ==
    \A c \in 1..Len(calls) :
        /\ calls[c].attempts <= max_retries
        /\ calls[c].temp_file = 0 => calls[c].attempts = max_retries

\* C26 (as claimed): when a gallery run has ended, normally or by an
\* exception, every temporary file a download created has been deleted, the
\* files of downloads that failed part-way through writing included.
C26_NoTempFileLeft ==
    gallery_pc \in {"exit", "raised"} => disk = {}


\* C28 (as claimed): create_memberships terminates (it returns or raises)
\* for every list of users and channels, every membership ratio and every
\* behaviour of the store.
C28_MembershipsTerminate ==
    <>(members_pc \in {"done", "raised"})

====
